---- MODULE Spec2Model ----
(***************************************************************************)
(* The highway environments of sdriving/environments/highway.py:           *)
(* MultiAgentHighwayBicycleKinematicsModel, its discrete-action subclass   *)
(* and the two-stage spline subclass.  The model keeps the episode state   *)
(* (collision_vector, completion_vector, nsteps, destinations), the two    *)
(* history deques, the dynamics binding and the spline flag, and has one   *)
(* action per public entry point: reset() and step().                      *)
(*                                                                         *)
(* Tensors are per-agent functions over Agents; floating point values are  *)
(* exact rationals <<numerator, denominator>> in lowest terms.             *)
(***************************************************************************)
EXTENDS Integers, Sequences, FiniteSets, TLC

(* ------------------------------ bounds -------------------------------- *)

\* Episode length given to the constructor (horizon, default 200).
Horizon == 2

\* Largest history_len given to the constructor (default 5).
MaxHistoryLen == 2

\* Cap on the number of step(stage=0) calls modelled per episode.
MaxStage0 == 2

\* Agent indices of the batched vehicle (nagents = 2).
Agents == {0, 1}

\* Rating vectors (torch.rand(nagents, 1) + 1) * 0.5 drawn at reset, with
\* every entry in [0.5, 1.0).
RatingDraws ==
    {(0 :> <<1, 2>> @@ 1 :> <<3, 4>>), (0 :> <<3, 4>> @@ 1 :> <<3, 4>>)}

\* Per-agent outcomes of one simulated interval, as the external world
\* reports them: displacement along the road, resulting speed, and the
\* collision check's signal for the agent.  In order: standing still,
\* driving on, driving on into a collision, bouncing back from one.
AgentOutcomes ==
    <<[dx |-> 0, v |-> 0, hit |-> FALSE],
      [dx |-> 170, v |-> 16, hit |-> FALSE],
      [dx |-> 170, v |-> 16, hit |-> TRUE],
      [dx |-> -10, v |-> -4, hit |-> TRUE]>>

\* Joint outcomes of one simulated interval: agent i gets outcome k + i
\* (cyclically), so every agent meets every sequence of its own outcomes.
StepOutcomes ==
    {[i \in Agents |-> AgentOutcomes[((k + i) % Len(AgentOutcomes)) + 1]] :
        k \in 1..Len(AgentOutcomes)}

\* Raw ray distances returned by world.get_lidar_data_all_vehicles: 0 when
\* the obstacle touches the ray's origin.
LidarVals == {0, 1}

\* The scan of the world as reset() builds it (the same world every time,
\* the vehicles 10 apart, so the farthest reading).
InitialScan == CHOOSE r \in LidarVals : \A x \in LidarVals : r >= x

\* Stage arguments a caller may pass to the spline variant's step().
Stages == {0, 1, 2}

\* "bicycle" stands for both bicycle classes: the discrete one overrides
\* only the action table and its lookup.
Variants == {"bicycle", "spline"}

(* ------------------------- program constants -------------------------- *)

length == 250
max_velocity == 16
max_accln == 3
lidar_noise == 0

(* ----------------------------- rationals ------------------------------ *)

Abs(x) == IF x < 0 THEN -x ELSE x

RECURSIVE GCD(_, _)
GCD(a, b) == IF b = 0 THEN a ELSE GCD(b, a % b)

\* n/d in lowest terms with a positive denominator; a float division by
\* zero raises nothing and yields inf, kept here as the pair <<1, 0>>.
Rat(n, d) ==
    LET g == GCD(Abs(n), Abs(d))
        s == IF d < 0 THEN -1 ELSE 1
    IN  <<(s * n) \div g, (s * d) \div g>>

RInt(n) == <<n, 1>>
RAdd(x, y) == Rat(x[1] * y[2] + y[1] * x[2], x[2] * y[2])
RNeg(x) == <<-x[1], x[2]>>
RSub(x, y) == RAdd(x, RNeg(y))
RMul(x, y) == Rat(x[1] * y[1], x[2] * y[2])
RDiv(x, y) == Rat(x[1] * y[2], x[2] * y[1])
RAbs(x) == <<Abs(x[1]), x[2]>>
RLeq(x, y) == x[1] * y[2] <= y[1] * x[2]
RZero == RInt(0)
ROne == RInt(1)
\* bool.float(): True -> 1.0, False -> 0.0
RBool(b) == IF b THEN ROne ELSE RZero

(* ------------------------------- state -------------------------------- *)

VARIABLES
    variant,             \* which environment class was constructed
    history_len,         \* self.history_len
    started,             \* reset() has been called at least once
    position,            \* agents["agent"].position[:, 0]
    destination,         \* agents["agent"].destination[:, 0]
    speed,               \* agents["agent"].speed
    accln_rating,        \* self.accln_rating
    vel_rating,          \* self.vel_rating
    original_distances,  \* self.original_distances
    completion_vector,   \* self.completion_vector
    collision_vector,    \* self.collision_vector
    nsteps,              \* self.nsteps
    queue1,              \* self.queue1, oldest entry first
    queue2,              \* self.queue2, oldest entry first
    dynamics,            \* self.dynamics: [kind, id, v_lim]
    got_spline_state,    \* self.got_spline_state
    world_lidar,         \* what world.get_lidar_data_all_vehicles returns now
    nstage0,             \* step(stage=0) calls made in this episode
    lastCall,            \* the call that produced this state: [op, stage]
    err,                 \* exception raised by the last call, or "none"
    obsRet,              \* observation returned by the last get_state
    rew,                 \* terms of the reward returned by the last get_reward
    incoming,            \* collision signal passed to the last get_reward
    signedDist,          \* destination - position read by the last get_reward
    sigCount,            \* get_reward calls of the episode with incoming true
    reachCount,          \* get_reward calls of the episode with signedDist <= 0
    bonusCount,          \* get_reward calls of the episode that paid the bonus
    rawLog1,             \* raw obs of every history-producing get_state call
    rawLog2,             \* raw lidar of every history-producing get_state call
    resetFrom,           \* after reset(): what the object held when it was called
    action_list,         \* self.action_list of the discrete classes
    held,                \* the action tensor the caller holds: [val, uses]
    fn                   \* the last call of a resolver or helper, with its result

vars == <<variant, history_len, started, position, destination, speed,
          accln_rating, vel_rating, original_distances, completion_vector,
          collision_vector, nsteps, queue1, queue2, dynamics,
          got_spline_state, world_lidar, nstage0, lastCall, err, obsRet, rew, incoming,
          signedDist, sigCount, reachCount, bonusCount, rawLog1, rawLog2,
          resetFrom, action_list, held, fn>>

\* Everything the environment object itself holds (no return values, no
\* bookkeeping of the calls made).
envState == <<position, destination, speed, accln_rating, vel_rating,
              original_distances, completion_vector, collision_vector,
              nsteps, queue1, queue2, dynamics, got_spline_state,
              world_lidar>>

ghosts == <<incoming, signedDist, sigCount, reachCount, bonusCount,
            rawLog1, rawLog2>>

\* What the resolvers and helpers touch: the table, the caller's tensor and
\* the record of the call.
fnVars == <<action_list, held, fn>>

\* resetFrom outside the state reset() returns in.
NoEpisode == [spline |-> FALSE, pushed |-> FALSE, steps |-> 0]

NoTensor == [val |-> [i \in Agents |-> <<RZero, RZero>>], uses |-> 0]

NoCall == [op |-> "none"]

NoReward == [i \in Agents |->
    [dist |-> RZero, speed |-> RZero, penalty |-> RZero, bonus |-> RZero,
     total |-> RZero]]

NoObs == [kind |-> "none", state |-> <<>>, lidar |-> <<>>]

(* ------------------------ Observation Builder ------------------------- *)

\* v_lim = self.vel_rating[:, 0] * self.max_velocity
VLim(vr) == [i \in Agents |-> RMul(vr[i], RInt(max_velocity))]

\* inv_dist = 1 / |destination - position|.clamp(min=1.0)
InvDist(pos, dest, i) ==
    LET d == Abs(dest[i] - pos[i])
    IN  RDiv(ROne, RInt(IF d < 1 THEN 1 ELSE d))

\* obs of the bicycle variants: [inv_dist, speed / v_lim, accln_rating, vel_rating]
BicycleObs(pos, dest, spd, vlim, ar, vr) ==
    [i \in Agents |->
        <<InvDist(pos, dest, i), RDiv(RInt(spd[i]), vlim[i]), ar[i], vr[i]>>]

\* obs of the spline variant: [inv_dist, speed / v_lim]
SplineObs(pos, dest, spd, vlim) ==
    [i \in Agents |-> <<InvDist(pos, dest, i), RDiv(RInt(spd[i]), vlim[i])>>]

\* lidar = 1 / raw scan, times the dropout mask when lidar_noise > 0
Lidar(raw, mask) ==
    LET l == RDiv(ROne, RInt(raw))
    IN  IF lidar_noise > 0 THEN RMul(l, RBool(mask)) ELSE l

\* Variant of DequeAppend: a deque built without maxlen never drops.
DequeAppendUnbounded(q, x) == Append(q, x)

\* Variant of DequeAppend: a full deque refuses the end it should take.
DequeAppendDropNewest(q, x) ==
    IF Len(q) >= history_len
    THEN Append(SubSeq(q, 1, Len(q) - 1), x)
    ELSE Append(q, x)

\* deque(maxlen=history_len).append: a full deque drops its oldest entry
DequeAppend(q, x) ==
    IF Len(q) >= history_len THEN Append(Tail(q), x) ELSE Append(q, x)

\* while len(self.queue1) <= self.history_len - 1: append to both deques
RECURSIVE FillQueues(_, _, _, _)
FillQueues(q1, q2, o, l) ==
    IF Len(q1) <= history_len - 1
    THEN FillQueues(DequeAppend(q1, o), DequeAppend(q2, l), o, l)
    ELSE <<q1, q2>>

\* The history branch of get_state: the two deques after the call.
PushHistory(q1, q2, o, l) ==
    IF history_len > 1
    THEN LET f == FillQueues(q1, q2, o, l)
         IN  <<DequeAppend(f[1], o), DequeAppend(f[2], l)>>
    ELSE <<q1, q2>>

\* The history branch of get_state: what is returned, per stream the
\* entries of torch.cat(list(queue)) oldest first, or the raw value alone.
ReturnedStreams(q1, q2, o, l) ==
    IF history_len > 1 THEN PushHistory(q1, q2, o, l) ELSE <<<<o>>, <<l>>>>

\* Variant of RatingOnly: the flag is not consulted.
RatingOnlyAlways(gss) == variant = "spline"

\* Whether this get_state call returns the rating only (spline variant,
\* first call after reset).
RatingOnly(gss) == variant = "spline" /\ ~gss

\* get_state as a function of what it reads; the result names the new
\* deques, the new flag, the returned observation and the raw values.
GetState(pos, dest, spd, vlim, ar, vr, q1, q2, gss, raw, mask) ==
    IF RatingOnly(gss)
    THEN [queue1 |-> q1, queue2 |-> q2, got |-> TRUE, produced |-> FALSE,
          raw1 |-> <<>>, raw2 |-> <<>>,
          obs |-> [kind |-> "rating", state |-> <<ar>>, lidar |-> <<>>]]
    ELSE LET o == IF variant = "spline"
                  THEN SplineObs(pos, dest, spd, vlim)
                  ELSE BicycleObs(pos, dest, spd, vlim, ar, vr)
             l == Lidar(raw, mask)
             h == PushHistory(q1, q2, o, l)
             r == ReturnedStreams(q1, q2, o, l)
         IN  [queue1 |-> h[1], queue2 |-> h[2],
              got |-> gss, produced |-> TRUE, raw1 |-> <<o>>, raw2 |-> <<l>>,
              obs |-> [kind |-> "history", state |-> r[1], lidar |-> r[2]]]

(* --------------------------- Reward Engine ---------------------------- *)

\* distances = destination - position (before .abs())
SignedDistance(pos, dest, i) == dest[i] - pos[i]

\* reached_goal = distances <= 0.0
ReachedGoal(pos, dest, i) == SignedDistance(pos, dest, i) <= 0

\* not_completed = ~self.completion_vector, read before the update
NotCompleted(i) == ~completion_vector[i]

\* Variant of GoalReachBonus: the not_completed mask is left out.
GoalReachBonusEveryTime(pos, dest, i) == RBool(ReachedGoal(pos, dest, i))

\* goal_reach_bonus = (not_completed * reached_goal).float()
GoalReachBonus(pos, dest, i) ==
    RBool(NotCompleted(i) /\ ReachedGoal(pos, dest, i))

\* Variant of NewCompletionVector: assignment instead of accumulation.
NewCompletionVectorOverwrite(pos, dest) ==
    [i \in Agents |-> ReachedGoal(pos, dest, i)]

\* self.completion_vector = self.completion_vector + reached_goal
NewCompletionVector(pos, dest) ==
    [i \in Agents |-> completion_vector[i] \/ ReachedGoal(pos, dest, i)]

\* Variant of NewDestination: the destination is pinned only on the call
\* in which the agent completes.
NewDestinationPinnedOnce(pos, dest) ==
    [i \in Agents |->
        IF NotCompleted(i) /\ ReachedGoal(pos, dest, i)
        THEN pos[i] ELSE dest[i]]

\* destination = position * completion_vector + destination * ~completion_vector
NewDestination(pos, dest) ==
    [i \in Agents |->
        IF NewCompletionVector(pos, dest)[i] THEN pos[i] ELSE dest[i]]

\* Variant of NormDistance: the not_completed mask is left out.
NormDistanceUnmasked(pos, dest, i) ==
    RDiv(RInt(Abs(SignedDistance(pos, dest, i))), RInt(original_distances[i]))

\* distances = distances.abs() * not_completed / self.original_distances
NormDistance(pos, dest, i) ==
    RMul(RInt(Abs(SignedDistance(pos, dest, i))),
         RDiv(RBool(NotCompleted(i)), RInt(original_distances[i])))

\* Variant of NewCollisions: the ~collision_vector mask is left out.
NewCollisionsUnmasked(inc, i) == inc[i]

\* new_collisions = ~self.collision_vector * new_collisions
NewCollisions(inc, i) == ~collision_vector[i] /\ inc[i]

\* Variant of PenaltyValue: the time factor forgets the current step.
PenaltyValueFlat(n, nd, k) == RAdd(n, RMul(n, nd))

\* new.float() + new * distances * (horizon - nsteps - 1) / horizon, for the
\* new-collision flag n, the normalized distance nd and nsteps = k
PenaltyValue(n, nd, k) ==
    RAdd(n, RDiv(RMul(RMul(n, nd), RInt(Horizon - k - 1)), RInt(Horizon)))

\* penalty = new.float() + new * distances * (horizon - nsteps - 1) / horizon
Penalty(pos, dest, inc, i) ==
    PenaltyValue(RBool(NewCollisions(inc, i)), NormDistance(pos, dest, i), nsteps)

\* self.collision_vector += new_collisions
NewCollisionVector(inc) ==
    [i \in Agents |-> collision_vector[i] \/ NewCollisions(inc, i)]

\* -distances * ~self.collision_vector / self.horizon
DistanceTerm(pos, dest, inc, i) ==
    RDiv(RMul(RNeg(NormDistance(pos, dest, i)),
              RBool(~NewCollisionVector(inc)[i])),
         RInt(Horizon))

\* Variant of SpeedTerm: the absolute value is missing.
SpeedTermSigned(pos, dest, spd, i) ==
    RDiv(RMul(RDiv(RInt(spd[i]), RInt(8)),
              RBool(NewCompletionVector(pos, dest)[i])),
         RInt(Horizon))

\* (speeds / 8.0).abs() * self.completion_vector / self.horizon
SpeedTerm(pos, dest, spd, i) ==
    RDiv(RMul(RAbs(RDiv(RInt(spd[i]), RInt(8))),
              RBool(NewCompletionVector(pos, dest)[i])),
         RInt(Horizon))

\* The value get_reward returns, with its four terms.
GetReward(pos, dest, spd, inc) ==
    [i \in Agents |->
        LET d == DistanceTerm(pos, dest, inc, i)
            s == SpeedTerm(pos, dest, spd, i)
            p == Penalty(pos, dest, inc, i)
            b == GoalReachBonus(pos, dest, i)
        IN  [dist |-> d, speed |-> s, penalty |-> p, bonus |-> b,
             total |-> RAdd(RSub(RSub(d, s), p), b)]]

(* --------------------------- Action Resolver -------------------------- *)

\* torch.arange(start, end, step): start + k * step for every k >= 0 with
\* start + k * step < end
RECURSIVE Arange(_, _, _)
Arange(start, end, step) ==
    IF RLeq(end, start)
    THEN <<>>
    ELSE <<start>> \o Arange(RAdd(start, step), end, step)

\* self.max_steering of the discrete bicycle class
max_steering == Rat(1, 10)

\* list(product(arange(-max_steering, max_steering + 0.01, 0.05),
\*              arange(-1, 1 + 0.05, 0.25))): rows [steering, acceleration],
\* the steering varying slowest
BicycleTable ==
    LET st == Arange(RNeg(max_steering), RAdd(max_steering, Rat(1, 100)),
                     Rat(5, 100))
        ac == Arange(RInt(-1), RAdd(ROne, Rat(5, 100)), Rat(25, 100))
    IN  [k \in 1..(Len(st) * Len(ac)) |->
            <<st[((k - 1) \div Len(ac)) + 1], ac[((k - 1) % Len(ac)) + 1]>>]

\* arange(-max_accln, max_accln + 0.05, step=0.25).unsqueeze(1): rows [acceleration]
SplineTable ==
    LET ac == Arange(RInt(-max_accln), RAdd(RInt(max_accln), Rat(5, 100)),
                     Rat(25, 100))
    IN  [k \in 1..Len(ac) |-> <<ac[k]>>]

\* configure_action_space of the class v stands for (for "bicycle", the
\* discrete bicycle class: the continuous one has no table)
ConfigureActionSpace(v) == IF v = "spline" THEN SplineTable ELSE BicycleTable

\* The continuous class: actions[:, 1:] * max_accln * accln_rating, the
\* steering column as given.
ContinuousControl(a, ar) ==
    [i \in Agents |-> <<a[i][1], RMul(RMul(a[i][2], RInt(max_accln)), ar[i])>>]

\* The caller's tensor after the continuous class resolved it: the result
\* was assigned into its own column 1 and that same tensor was returned.
HeldAfterContinuous(a, out) == out

\* The discrete bicycle class: the rows looked up, column 1 rescaled.
\* Row k of the tensor is row k of this sequence (1-based here).
DiscreteControl(table, idx, ar) ==
    [i \in Agents |->
        <<table[idx[i]][1],
          RMul(RMul(table[idx[i]][2], RInt(max_accln)), ar[i])>>]

\* Variant of TableAfterLookup: the lookup returns a view of the table, so
\* the assignment to column 1 writes through.
TableAfterLookupView(table, idx, out) ==
    [k \in DOMAIN table |->
        IF \E i \in Agents : idx[i] = k
        THEN out[CHOOSE i \in Agents : idx[i] = k]
        ELSE table[k]]

\* self.action_list[actions] with an index tensor copies the rows, so the
\* assignment to column 1 leaves the table as it was.
TableAfterLookup(table, idx, out) == table

\* The spline class: action_list[action] * max_accln * accln_rating
SplineControl(table, idx, ar) ==
    [i \in Agents |->
        <<RMul(RMul(table[idx[i]][1], RInt(max_accln)), ar[i])>>]

\* Squared distance of two rows of equal length.
RECURSIVE SqDist(_, _)
SqDist(x, y) ==
    IF x = <<>>
    THEN RZero
    ELSE RAdd(RMul(RSub(x[1], y[1]), RSub(x[1], y[1])),
              SqDist(Tail(x), Tail(y)))

\* Index of the table row nearest to the value v (the first one on a tie).
Nearest(table, v) ==
    CHOOSE k \in DOMAIN table :
        \A j \in DOMAIN table :
            /\ RLeq(SqDist(table[k], v), SqDist(table[j], v))
            /\ (j < k => SqDist(table[j], v) # SqDist(table[k], v))

(* ------------------------- Centralized Critics ------------------------ *)

\* Per-agent observation values and lidar values fed to the critics.
ObsVals == {0, 1, 2}
LidarObsVals == {0, 1}

\* (number of agents, batch size) of the inputs fed to the critics.
CriticShapes == {<<2, 2>>, <<3, 1>>}

\* The networks built by mlp(): row-wise functions of their input, named
\* by the weights f they were constructed with.
FNets == {1, 2}
VNets == {<<-2, 1>>}

\* self.f_net applied to one row
FNet(f, x) == IF f = 1 THEN x * x + 1 ELSE IF x < 1 THEN 1 - x ELSE 0

\* self.lidar_features applied to one row
LidarFeatures(l) == 2 * l + 1

\* self.feature_net applied to one row of cat([state_vec, feature_vec])
FeatureNet(f, row) ==
    IF f = 1
    THEN row[1] * row[1] + 3 * row[2]
    ELSE IF row[1] < 2 * row[2] THEN 2 * row[2] - row[1] ELSE 0

\* self.v_net applied to one row
VNet(v, y) == RAdd(RMul(RInt(v[1]), y), RInt(v[2]))

\* torch.cat(f_vecs, dim=0) and Tensor.view(-1, d): the agents' batches one
\* after another
RECURSIVE CatRows(_)
CatRows(l) == IF l = <<>> THEN <<>> ELSE l[1] \o CatRows(Tail(l))

\* Tensor.view(n, bsize, -1): entry (a, b) is row (a - 1) * bsize + b
View(flat, n, bsize) ==
    [a \in 1..n |-> [b \in 1..bsize |-> flat[(a - 1) * bsize + b]]]

\* Sum over the first k agents of column b.
RECURSIVE SumAgents(_, _, _)
SumAgents(t, k, b) ==
    IF k = 0 THEN RZero ELSE RAdd(SumAgents(t, k - 1, b), RInt(t[k][b]))

\* Variant of Mean0: the features are reduced with a weight per position,
\* as a linear layer over their concatenation does.
RECURSIVE WeightedAgents(_, _, _)
WeightedAgents(t, k, b) ==
    IF k = 0
    THEN RZero
    ELSE RAdd(WeightedAgents(t, k - 1, b), RInt(k * t[k][b]))

Mean0Weighted(t, n, bsize) ==
    [b \in 1..bsize |-> RDiv(WeightedAgents(t, n, b), RInt(n))]

\* Tensor.mean(0): the mean over the agents, per batch entry
Mean0(t, n, bsize) ==
    [b \in 1..bsize |-> RDiv(SumAgents(t, n, b), RInt(n))]

\* PPOWaypointPermutationInvariantCentralizedCritic.forward(obs_list)
WaypointForward(f, v, obs_list, bsize) ==
    LET n == Len(obs_list)
        flat == CatRows(obs_list)
        feats == [k \in 1..Len(flat) |-> FNet(f, flat[k])]
        state_vec == Mean0(View(feats, n, bsize), n, bsize)
    IN  [b \in 1..bsize |-> VNet(v, state_vec[b])]

\* PPOLidarPermutationInvariantCentralizedCritic.forward((state_vec, lidar_vec))
LidarForward(f, v, state_vec, lidar_vec, bsize) ==
    LET nagents == Len(lidar_vec)
        st == CatRows(state_vec)
        li == CatRows(lidar_vec)
        feature_vec == [k \in 1..Len(li) |-> LidarFeatures(li[k])]
        val == [k \in 1..Len(st) |-> FeatureNet(f, <<st[k], feature_vec[k]>>)]
        m == Mean0(View(val, nagents, bsize), nagents, bsize)
    IN  [b \in 1..bsize |-> VNet(v, m[b])]

\* The agents' entries of a stacked input in the order p.
Reordered(t, p) == [a \in 1..Len(t) |-> t[p[a]]]

(* ------------------------------ actions ------------------------------- *)

\* spos and epos of add_vehicles_to_world, x coordinates
StartPosition(i) == -(length \div 2) + 30 + 10 * i
EndPosition == (length \div 2) - 50

\* vehicle.distance_from_destination() of the freshly placed vehicles
DistanceFromDestination(pos, dest) ==
    [i \in Agents |-> Abs(dest[i] - pos[i])]

\* Variant of BicycleBinding: store_dynamics runs before the ratings of the
\* new episode are assigned.
BicycleBindingStale(vr) ==
    [kind |-> "bicycle", id |-> 0, v_lim |-> VLim(vel_rating)]

\* store_dynamics: a BicycleKinematicsModel, the first binding of the episode
BicycleBinding(vr) == [kind |-> "bicycle", id |-> 0, v_lim |-> VLim(vr)]

\* Variant of SplineBinding: the assignment to self.dynamics is lost.
SplineBindingKept(vr, n) == dynamics

\* step(stage=0): a SplineModel built from the four path points; id counts
\* the bindings constructed in the episode, so every one is a new object
SplineBinding(vr, n) == [kind |-> "spline", id |-> n, v_lim |-> VLim(vr)]

\* State after __init__: no vehicles, no deques (None), no dynamics yet.
EnvInit ==
    /\ variant \in Variants
    /\ history_len \in 1..MaxHistoryLen
    /\ started = FALSE
    /\ position = [i \in Agents |-> 0]
    /\ destination = [i \in Agents |-> 0]
    /\ speed = [i \in Agents |-> 0]
    /\ accln_rating = [i \in Agents |-> ROne]
    /\ vel_rating = [i \in Agents |-> ROne]
    /\ original_distances = [i \in Agents |-> 1]
    /\ completion_vector = [i \in Agents |-> FALSE]
    /\ collision_vector = [i \in Agents |-> FALSE]
    /\ nsteps = 0
    /\ queue1 = <<>>
    /\ queue2 = <<>>
    /\ dynamics = [kind |-> "none", id |-> 0, v_lim |-> [i \in Agents |-> RZero]]
    /\ got_spline_state = FALSE
    /\ world_lidar = InitialScan
    /\ nstage0 = 0
    /\ lastCall = [op |-> "init", stage |-> 0]
    /\ err = "none"
    /\ obsRet = NoObs
    /\ rew = NoReward
    /\ incoming = [i \in Agents |-> FALSE]
    /\ signedDist = [i \in Agents |-> 0]
    /\ sigCount = [i \in Agents |-> 0]
    /\ reachCount = [i \in Agents |-> 0]
    /\ bonusCount = [i \in Agents |-> 0]
    /\ rawLog1 = <<>>
    /\ rawLog2 = <<>>
    /\ resetFrom = NoEpisode
    /\ action_list = ConfigureActionSpace(variant)

\* The constructed environment, no caller tensor and no helper call yet.
Init ==
    /\ EnvInit
    /\ held = NoTensor
    /\ fn = NoCall

\* add_vehicles_to_world: place the vehicles, draw the ratings r, bind the
\* bicycle dynamics and record the original distances.
AddVehiclesToWorld(r) ==
    LET pos == [i \in Agents |-> StartPosition(i)]
        dest == [i \in Agents |-> EndPosition]
    IN  /\ position' = pos
        /\ destination' = dest
        /\ speed' = [i \in Agents |-> 0]
        /\ accln_rating' = r
        /\ vel_rating' = r
        /\ dynamics' = BicycleBinding(r)
        /\ original_distances' = DistanceFromDestination(pos, dest)

\* The base class's reset(): clear nsteps and both vectors, then return
\* get_state() of the fresh world (gss is the spline flag at that point).
BaseReset(r, gss) ==
    \E g \in {GetState([i \in Agents |-> StartPosition(i)],
                       [i \in Agents |-> EndPosition],
                       [i \in Agents |-> 0], VLim(r), r, r, <<>>, <<>>,
                       gss, InitialScan, TRUE)} :
        /\ completion_vector' = [i \in Agents |-> FALSE]
        /\ collision_vector' = [i \in Agents |-> FALSE]
        /\ nsteps' = 0
        /\ queue1' = g.queue1
        /\ queue2' = g.queue2
        /\ got_spline_state' = g.got
        /\ obsRet' = g.obs
        /\ rawLog1' = g.raw1
        /\ rawLog2' = g.raw2

\* Variant of ClearedSplineFlag: the subclass's reset() leaves the flag.
KeptSplineFlag == got_spline_state

\* self.got_spline_state = False, the first statement of the spline reset()
ClearedSplineFlag == FALSE

\* reset(): r are the ratings drawn.  The world is regenerated, always the
\* same, so the scan of the fresh world is InitialScan.  The spline subclass
\* clears got_spline_state first; both deques are replaced by empty ones
\* before the base class's reset() runs.
Reset(r) ==
    /\ started' = TRUE
    /\ world_lidar' = InitialScan
    /\ AddVehiclesToWorld(r)
    /\ BaseReset(r, ClearedSplineFlag)
    /\ nstage0' = 0
    /\ resetFrom' = [spline |-> dynamics.kind = "spline",
                     pushed |-> Len(queue1) > 0, steps |-> nsteps]
    /\ lastCall' = [op |-> "reset", stage |-> 0]
    /\ err' = "none"
    /\ rew' = NoReward
    /\ incoming' = [i \in Agents |-> FALSE]
    /\ signedDist' = [i \in Agents |-> 0]
    /\ sigCount' = [i \in Agents |-> 0]
    /\ reachCount' = [i \in Agents |-> 0]
    /\ bonusCount' = [i \in Agents |-> 0]
    /\ UNCHANGED <<variant, history_len, fnVars>>

\* The base class's step(action): the resolved action drives the external
\* integrator (outcome ph, after which the world scans as raw), then the
\* observation is built, the reward is computed from the collision signal
\* and nsteps advances.
BaseStep(stage, ph, raw) ==
    /\ nsteps < Horizon
    /\ \E pos \in {[i \in Agents |-> position[i] + ph[i].dx]},
          spd \in {[i \in Agents |-> ph[i].v]},
          inc \in {[i \in Agents |-> ph[i].hit]} :
           \E g \in {GetState(pos, destination, spd, dynamics.v_lim, accln_rating,
                              vel_rating, queue1, queue2, got_spline_state, raw,
                              TRUE)},
              rw \in {GetReward(pos, destination, spd, inc)} :
               /\ position' = pos
               /\ world_lidar' = raw
               /\ speed' = spd
               /\ queue1' = g.queue1
               /\ queue2' = g.queue2
               /\ got_spline_state' = g.got
               /\ obsRet' = g.obs
               /\ rawLog1' = rawLog1 \o g.raw1
               /\ rawLog2' = rawLog2 \o g.raw2
               /\ rew' = rw
               /\ completion_vector' = NewCompletionVector(pos, destination)
               /\ collision_vector' = NewCollisionVector(inc)
               /\ destination' = NewDestination(pos, destination)
               /\ nsteps' = nsteps + 1
               /\ incoming' = inc
               /\ signedDist' = [i \in Agents |-> SignedDistance(pos, destination, i)]
               /\ sigCount' = [i \in Agents |-> sigCount[i] + IF inc[i] THEN 1 ELSE 0]
               /\ reachCount' = [i \in Agents |->
                      reachCount[i] + IF ReachedGoal(pos, destination, i) THEN 1 ELSE 0]
               /\ bonusCount' = [i \in Agents |->
                      bonusCount[i] + IF rw[i].bonus = ROne THEN 1 ELSE 0]
               /\ lastCall' = [op |-> "step", stage |-> stage]
               /\ err' = "none"
               /\ resetFrom' = NoEpisode
               /\ UNCHANGED <<variant, history_len, started, accln_rating, vel_rating,
                              original_distances, dynamics, nstage0, fnVars>>

\* step(action) of the two bicycle variants.
Step(ph, raw) ==
    /\ started
    /\ variant # "spline"
    /\ BaseStep(1, ph, raw)

\* Variant of StageAccepted: the assertion is missing.
StageAcceptedAny(stage) == TRUE

\* assert stage in [0, 1]
StageAccepted(stage) == stage \in {0, 1}

\* The spline variant's step(stage=0, offset): rebind the dynamics to a new
\* SplineModel and return get_state().
Stage0(stage) ==
    \E g \in {GetState(position, destination, speed, VLim(vel_rating),
                       accln_rating, vel_rating, queue1, queue2,
                       got_spline_state, world_lidar, TRUE)} :
        /\ nstage0 < MaxStage0
        /\ dynamics' = SplineBinding(vel_rating, nstage0 + 1)
        /\ queue1' = g.queue1
        /\ queue2' = g.queue2
        /\ got_spline_state' = g.got
        /\ obsRet' = g.obs
        /\ rawLog1' = rawLog1 \o g.raw1
        /\ rawLog2' = rawLog2 \o g.raw2
        /\ nstage0' = nstage0 + 1
        /\ lastCall' = [op |-> "step", stage |-> stage]
        /\ err' = "none"
        /\ resetFrom' = NoEpisode
        /\ UNCHANGED <<variant, history_len, started, position, destination,
                       speed, accln_rating, vel_rating, original_distances,
                       completion_vector, collision_vector, nsteps, rew,
                       world_lidar, incoming, signedDist, sigCount, reachCount,
                       bonusCount, fnVars>>

\* The failed assertion: AssertionError propagates, nothing was assigned.
StageRejected(stage) ==
    /\ lastCall' = [op |-> "step", stage |-> stage]
    /\ err' = "AssertionError"
    /\ resetFrom' = NoEpisode
    /\ UNCHANGED <<variant, history_len, started, envState, nstage0, obsRet,
                   rew, ghosts, fnVars>>

\* step(stage, action) of the spline variant.
SplineStep(stage, ph, raw) ==
    /\ started
    /\ variant = "spline"
    /\ IF ~StageAccepted(stage)
       THEN StageRejected(stage)
       ELSE IF stage = 1
            THEN BaseStep(stage, ph, raw)
            ELSE Stage0(stage)

\* What a call reads from the world: only a control step advances the
\* world, so only it sees a new outcome and a new scan.
NoOutcome == [i \in Agents |-> [dx |-> 0, v |-> 0, hit |-> FALSE]]
OutcomesRead(stage) == IF stage = 1 THEN StepOutcomes ELSE {NoOutcome}
ScansRead(stage) == IF stage = 1 THEN LidarVals ELSE {world_lidar}

Next ==
    \/ \E r \in RatingDraws : Reset(r)
    \/ \E ph \in OutcomesRead(1), raw \in ScansRead(1) : Step(ph, raw)
    \/ \E stage \in Stages :
         \E ph \in OutcomesRead(stage), raw \in ScansRead(stage) :
            SplineStep(stage, ph, raw)

Spec == Init /\ [][Next]_vars

(* --------------------- resolvers and helpers alone -------------------- *)

\* Caller-side action tensors of the continuous class: rows [steer, accel]
\* inside Box(low=[-0.1, -1.0], high=[0.1, 1.0]).
ActionValues ==
    <<<<Rat(-1, 10), RInt(-1)>>, <<RZero, RZero>>,
      <<Rat(1, 20), Rat(1, 2)>>, <<Rat(1, 10), ROne>>>>

CallerActions ==
    {[i \in Agents |-> ActionValues[((k + i) % Len(ActionValues)) + 1]] :
        k \in 1..Len(ActionValues)}

\* Index tensors handed to a discrete class: agent i gets index k + i
\* (cyclically), so every row of the table is looked up.
IndexTensors(table) ==
    {[i \in Agents |-> ((k - 1 + i) % Len(table)) + 1] : k \in 1..Len(table)}

\* Normalized distances the penalty is evaluated at.
NormDistances == {RZero, Rat(1, 2), ROne, Rat(18, 17)}

\* How often the caller hands the same tensor to the continuous resolver.
MaxResolves == 2

Pending(f) == [op |-> "pending", f |-> f]

\* The inputs drawn for one helper call.
PenaltyInputs ==
    {[op |-> "pending", f |-> "penalty", nd |-> nd, n1 |-> n1, n2 |-> n2] :
        nd \in NormDistances, n1 \in 0..(Horizon - 1), n2 \in 0..(Horizon - 1)}

ResolverInputs(v) ==
    IF v = "spline"
    THEN {[op |-> "pending", f |-> "spline", idx |-> x] :
             x \in IndexTensors(SplineTable)}
    ELSE {[op |-> "pending", f |-> "discrete", idx |-> x] :
             x \in IndexTensors(BicycleTable)}
         \cup {Pending("continuous")}

CriticInputs ==
    UNION {
        {[op |-> "pending", f |-> "critic", class |-> c, bsize |-> sh[2],
          obs |-> o, lid |-> l, perm |-> p, fnet |-> f, vnet |-> v] :
            c \in {"waypoint"}, f \in FNets, v \in VNets,
            o \in [1..sh[1] -> [1..sh[2] -> ObsVals]],
            l \in {[a \in 1..sh[1] |-> [b \in 1..sh[2] |-> 0]]},
            p \in Permutations(1..sh[1])}
        \cup
        {[op |-> "pending", f |-> "critic", class |-> c, bsize |-> sh[2],
          obs |-> o, lid |-> l, perm |-> p, fnet |-> f, vnet |-> v] :
            c \in {"lidar"}, f \in FNets, v \in VNets,
            o \in [1..sh[1] -> [1..sh[2] -> ObsVals]],
            l \in [1..sh[1] -> [1..sh[2] -> LidarObsVals]],
            p \in Permutations(1..sh[1])}
        : sh \in CriticShapes}

\* The constructed environment (or, for the critics and the penalty, none
\* in particular) and the inputs of the call to come.
FnInit ==
    /\ EnvInit
    /\ fn \in PenaltyInputs \cup ResolverInputs(variant) \cup CriticInputs
    /\ (fn.f \in {"penalty", "critic"} => variant = "bicycle" /\ history_len = 1)
    /\ held \in IF fn.f = "continuous"
                THEN {[val |-> a, uses |-> 0] : a \in CallerActions}
                ELSE {NoTensor}

\* reset() before the resolver is used: the ratings it reads are drawn.
FnReset(r) ==
    /\ fn.op = "pending"
    /\ fn.f \in {"continuous", "discrete", "spline"}
    /\ Reset(r)

\* discrete_to_continuous_actions of the continuous class on the tensor the
\* caller holds.
ResolveContinuous ==
    /\ started
    /\ fn.f = "continuous"
    /\ held.uses < MaxResolves
    /\ \E out \in {ContinuousControl(held.val, accln_rating)} :
        /\ held' = [val |-> HeldAfterContinuous(held.val, out),
                    uses |-> held.uses + 1]
        /\ fn' = [op |-> "continuous", f |-> "continuous", arg |-> held.val,
                  out |-> out, accel |-> [i \in Agents |-> out[i][2]],
                  first |-> IF held.uses = 0 THEN out ELSE fn.first]
    /\ UNCHANGED <<variant, history_len, started, envState, nstage0, lastCall,
                   err, obsRet, rew, ghosts, resetFrom, action_list>>

\* discrete_to_continuous_actions of the discrete bicycle class.
ResolveDiscrete ==
    /\ started
    /\ fn.op = "pending" /\ fn.f = "discrete"
    /\ \E out \in {DiscreteControl(action_list, fn.idx, accln_rating)} :
        /\ action_list' = TableAfterLookup(action_list, fn.idx, out)
        /\ fn' = [op |-> "discrete", f |-> "discrete", idx |-> fn.idx,
                  out |-> out, accel |-> [i \in Agents |-> out[i][2]]]
    /\ UNCHANGED <<variant, history_len, started, envState, nstage0, lastCall,
                   err, obsRet, rew, ghosts, resetFrom, held>>

\* discrete_to_continuous_actions of the spline class.
ResolveSpline ==
    /\ started
    /\ fn.op = "pending" /\ fn.f = "spline"
    /\ \E out \in {SplineControl(action_list, fn.idx, accln_rating)} :
        fn' = [op |-> "spline", f |-> "spline", idx |-> fn.idx,
               out |-> out, accel |-> [i \in Agents |-> out[i][1]]]
    /\ UNCHANGED <<variant, history_len, started, envState, nstage0, lastCall,
                   err, obsRet, rew, ghosts, resetFrom, action_list, held>>

\* The penalty expression of get_reward for one normalized distance at
\* two values of nsteps.
PenaltyPair ==
    /\ fn.op = "pending" /\ fn.f = "penalty"
    /\ fn' = [op |-> "penalty", f |-> "penalty", nd |-> fn.nd,
              n1 |-> fn.n1, n2 |-> fn.n2,
              p1 |-> PenaltyValue(ROne, fn.nd, fn.n1),
              p2 |-> PenaltyValue(ROne, fn.nd, fn.n2)]
    /\ UNCHANGED <<variant, history_len, started, envState, nstage0, lastCall,
                   err, obsRet, rew, ghosts, resetFrom, action_list, held>>

\* forward() of a permutation-invariant critic on the input and on the
\* input reordered by fn.perm.
CriticForward ==
    /\ fn.op = "pending" /\ fn.f = "critic"
    /\ fn' = [op |-> "critic", f |-> "critic", class |-> fn.class,
              obs |-> fn.obs, lid |-> fn.lid, perm |-> fn.perm,
              val |-> IF fn.class = "waypoint"
                      THEN WaypointForward(fn.fnet, fn.vnet, fn.obs, fn.bsize)
                      ELSE LidarForward(fn.fnet, fn.vnet, fn.obs, fn.lid,
                                        fn.bsize),
              valPerm |->
                  IF fn.class = "waypoint"
                  THEN WaypointForward(fn.fnet, fn.vnet,
                                       Reordered(fn.obs, fn.perm), fn.bsize)
                  ELSE LidarForward(fn.fnet, fn.vnet,
                                    Reordered(fn.obs, fn.perm),
                                    Reordered(fn.lid, fn.perm), fn.bsize)]
    /\ UNCHANGED <<variant, history_len, started, envState, nstage0, lastCall,
                   err, obsRet, rew, ghosts, resetFrom, action_list, held>>

FnNext ==
    \/ \E r \in RatingDraws : FnReset(r)
    \/ ResolveContinuous
    \/ ResolveDiscrete
    \/ ResolveSpline
    \/ PenaltyPair
    \/ CriticForward

FnSpec == FnInit /\ [][FnNext]_vars

(* ------------------------------ claims -------------------------------- *)

\* A get_reward call has been made in this episode: rew, incoming and
\* signedDist are those of the latest one.
Rewarded == nsteps > 0

StepCall(stage) == [op |-> "step", stage |-> stage]

\* C1: within an episode (every step that is not a reset), a bit of
\* collision_vector or completion_vector that is true stays true.
C1_VectorsMonotone ==
    [][lastCall'.op # "reset" =>
        \A i \in Agents :
            /\ collision_vector[i] => collision_vector'[i]
            /\ completion_vector[i] => completion_vector'[i]]_vars

\* C1 witness: a completed agent whose latest get_reward saw it short of its
\* destination again, and a collided agent whose latest signal was false.
C1_Witness ==
    /\ Rewarded
    /\ \E i \in Agents : completion_vector[i] /\ signedDist[i] > 0
    /\ \E j \in Agents : collision_vector[j] /\ ~incoming[j]

\* C2: the collision penalty of the latest get_reward is nonzero exactly for
\* an agent whose incoming signal is true for the first time in the episode,
\* and the distance term is zero from that call on.
C2_SingleCollisionCharge ==
    Rewarded =>
        \A i \in Agents :
            /\ rew[i].penalty # RZero <=> (incoming[i] /\ sigCount[i] = 1)
            /\ sigCount[i] >= 1 => rew[i].dist = RZero

\* C2 witness: the signal is true a second time for an agent that is still
\* short of its destination; no penalty is charged for it.
C2_Witness ==
    /\ Rewarded
    /\ \E i \in Agents :
        /\ incoming[i] /\ sigCount[i] >= 2
        /\ ~completion_vector[i] /\ signedDist[i] > 0
        /\ rew[i].penalty = RZero

\* C3 as stated: once an agent is completed its stored destination never
\* changes for the rest of the episode.
C3_DestinationNeverChanges ==
    [][lastCall'.op # "reset" =>
        \A i \in Agents :
            completion_vector[i] => destination'[i] = destination[i]]_vars

\* C3 amended: the stored destination of a completed agent is the agent's
\* position as of the latest get_reward, which rewrites it on every call;
\* positions change only in control steps, so the two are equal in every
\* state.
C3_DestinationFollowsAgent ==
    \A i \in Agents : completion_vector[i] => destination[i] = position[i]

\* C3 witness: an agent completed on an earlier call has moved since, and
\* its destination is no longer where the world placed it.
C3_Witness ==
    /\ Rewarded
    /\ \E i \in Agents :
        /\ completion_vector[i] /\ bonusCount[i] = 1
        /\ rew[i].bonus = RZero /\ signedDist[i] # 0
        /\ destination[i] # EndPosition

\* C4 as stated: from the completing call on, the distance term is zero.
C4_ZeroFromCompletingCall ==
    Rewarded =>
        \A i \in Agents : completion_vector[i] => rew[i].dist = RZero

\* C4 amended: the distance term is zero on every call after the completing
\* one; on the completing call (the one that pays the bonus) it is
\* -(|signed distance| / original distance) / horizon unless the agent is
\* collided after that call, so it is zero only without an overshoot.
C4_ZeroAfterCompletingCall ==
    Rewarded =>
        \A i \in Agents :
            completion_vector[i] =>
                IF rew[i].bonus = ROne
                THEN rew[i].dist =
                        IF collision_vector[i]
                        THEN RZero
                        ELSE RNeg(Rat(Abs(signedDist[i]),
                                      original_distances[i] * Horizon))
                ELSE rew[i].dist = RZero

\* C4 witness: an agent overshoots on the call that completes it, without
\* a collision, and gets a nonzero distance term.
C4_Witness ==
    /\ Rewarded
    /\ \E i \in Agents :
        /\ rew[i].bonus = ROne /\ signedDist[i] < 0
        /\ ~collision_vector[i] /\ rew[i].dist # RZero

\* C5 as stated: in the spline variant a step(stage=1) made before any
\* step(stage=0) of the episode raises.
C5_Stage1BeforeStage0Raises ==
    (variant = "spline" /\ lastCall = StepCall(1) /\ nstage0 = 0)
        => err # "none"

\* C6: a step whose stage is outside {0, 1} raises and leaves the dynamics
\* binding, both deques, the spline flag, both vectors and nsteps as they
\* were.
C6_BadStageRejected ==
    [][(lastCall'.op = "step" /\ lastCall'.stage \notin {0, 1}) =>
        /\ err' # "none"
        /\ UNCHANGED <<dynamics, queue1, queue2, got_spline_state,
                       collision_vector, completion_vector, nsteps>>]_vars

\* C6 witness: a rejected call made after a path was committed and a
\* control step was taken.
C6_Witness ==
    /\ lastCall = StepCall(2) /\ err = "AssertionError"
    /\ dynamics.kind = "spline" /\ nsteps > 0 /\ Len(queue1) > 0

\* C7: every step(stage=0) binds a spline model that is a new object, not
\* the binding of reset and not the one bound before the call, and leaves
\* nsteps, both vectors, positions and destinations as they were.
C7_Stage0Rebinds ==
    [][lastCall' = StepCall(0) =>
        /\ dynamics'.kind = "spline"
        /\ dynamics' # dynamics
        /\ dynamics' # BicycleBinding(vel_rating)
        /\ UNCHANGED <<nsteps, collision_vector, completion_vector,
                       position, destination>>]_vars

\* C7 witness: a second step(stage=0) of an episode, made after a control
\* step.
C7_Witness ==
    /\ lastCall = StepCall(0) /\ err = "none"
    /\ nstage0 = 2 /\ nsteps > 0 /\ dynamics.kind = "spline"

\* C8 as stated: for every history length and variant, once get_state has
\* been called after reset both deques hold exactly history_len entries.
C8_FullAfterFirstRead ==
    obsRet.kind # "none" =>
        /\ Len(queue1) = history_len
        /\ Len(queue2) = history_len

\* C8 amended: with history_len > 1 both deques hold exactly history_len
\* entries once a get_state call has returned a history (in the spline
\* variant the first call after reset returns the ratings and pushes
\* nothing); before that, and always with history_len = 1, both are empty.
C8_FullAfterHistoryRead ==
    IF history_len > 1 /\ obsRet.kind = "history"
    THEN Len(queue1) = history_len /\ Len(queue2) = history_len
    ELSE Len(queue1) = 0 /\ Len(queue2) = 0

\* C8 witness: more history reads than the deques hold, in the spline
\* variant, with the deques at exactly history_len.
C8_Witness ==
    /\ variant = "spline" /\ history_len > 1 /\ obsRet.kind = "history"
    /\ Len(rawLog1) > history_len
    /\ Len(queue1) = history_len /\ Len(queue2) = history_len

\* The window the n-th history read is to return: raw values n-H+1 .. n of
\* the log, an index below 1 standing for the first.
Window(log) ==
    [k \in 1..history_len |->
        LET j == Len(log) - history_len + k
        IN  log[IF j < 1 THEN 1 ELSE j]]

\* C9: with history_len > 1 the latest history read returned, per stream,
\* the raw values of the last history_len reads oldest first, padded at the
\* front with the first read of the episode.
C9_HistoryWindow ==
    (history_len > 1 /\ obsRet.kind = "history") =>
        /\ obsRet.state = Window(rawLog1)
        /\ obsRet.lidar = Window(rawLog2)

\* C9 witness: the first read of the episode has been dropped from both
\* returned histories, which hold differing entries.
C9_Witness ==
    /\ history_len > 1 /\ obsRet.kind = "history"
    /\ Len(rawLog1) > history_len
    /\ obsRet.state[1] # rawLog1[1]
    /\ obsRet.state[1] # obsRet.state[history_len]
    /\ obsRet.lidar[1] # obsRet.lidar[history_len]

\* C10: the latest get_reward paid the bonus of 1.0 exactly to the agents
\* whose signed distance was <= 0 for the first time in the episode; no
\* agent is paid twice in an episode.
C10_BonusOnce ==
    Rewarded =>
        \A i \in Agents :
            /\ rew[i].bonus \in {RZero, ROne}
            /\ rew[i].bonus = ROne <=> (signedDist[i] <= 0 /\ reachCount[i] = 1)
            /\ bonusCount[i] <= 1

\* C10 witness: an agent is at or past its destination on a second call and
\* is not paid again.
C10_Witness ==
    /\ Rewarded
    /\ \E i \in Agents :
        /\ reachCount[i] >= 2 /\ signedDist[i] <= 0
        /\ bonusCount[i] = 1 /\ rew[i].bonus = RZero

\* C11: reset() called in any state discards the episode: the state it
\* returns in holds only what the reset itself produced.  The dynamics is
\* the bicycle model bound to the new ratings (no spline of the previous
\* episode), nsteps and both vectors are cleared, and the deques hold
\* nothing pushed before the call: in the spline variant they are empty and
\* the observation returned is the rating alone (the flag was false when
\* it was produced), in the bicycle variants they hold only copies of the
\* observation of the fresh world.
C11_ResetDiscardsEpisode ==
    lastCall.op = "reset" =>
        /\ dynamics.kind = "bicycle" /\ dynamics.id = 0
        /\ nsteps = 0 /\ nstage0 = 0
        /\ \A i \in Agents : ~completion_vector[i] /\ ~collision_vector[i]
        /\ IF variant = "spline"
           THEN /\ queue1 = <<>> /\ queue2 = <<>>
                /\ obsRet.kind = "rating"
                /\ got_spline_state
           ELSE /\ Len(queue1) = (IF history_len > 1 THEN history_len ELSE 0)
                /\ Len(queue2) = Len(queue1)
                /\ \A k \in 1..Len(queue1) :
                      /\ queue1[k] = BicycleObs(position, destination, speed,
                                                dynamics.v_lim, accln_rating,
                                                vel_rating)
                      /\ queue2[k] = Lidar(InitialScan, TRUE)
                /\ obsRet.kind = "history"
                /\ \A k \in 1..Len(obsRet.state) :
                      obsRet.state[k] = BicycleObs(position, destination, speed,
                                                  dynamics.v_lim, accln_rating,
                                                  vel_rating)

\* C11 witness: reset() returned after it was called on an episode with a
\* committed spline, control steps taken and observations in the deques.
C11_Witness ==
    /\ lastCall.op = "reset" /\ variant = "spline"
    /\ resetFrom.spline /\ resetFrom.pushed /\ resetFrom.steps > 0
    /\ queue1 = <<>> /\ dynamics.kind = "bicycle"

\* C12: once reset() has been called there is one dynamics binding, and its
\* velocity limit is, per agent, velocity rating x max_velocity for the
\* ratings of the current episode: after reset, after every stage-0
\* rebinding and after every control step.  The ratings change only at
\* reset(), and in the bicycle variants so does the binding.
C12_BindingFollowsRatings ==
    [][/\ started' =>
            /\ dynamics'.kind \in {"bicycle", "spline"}
            /\ \A i \in Agents :
                  dynamics'.v_lim[i] =
                      Rat(vel_rating'[i][1] * max_velocity, vel_rating'[i][2])
       /\ lastCall'.op # "reset" =>
            /\ vel_rating' = vel_rating
            /\ (variant = "bicycle" => dynamics' = dynamics)]_vars

\* C12 witness: a control step taken against a spline bound in an episode
\* whose agents drew different ratings.
C12_Witness ==
    /\ lastCall = StepCall(1) /\ nsteps > 0
    /\ dynamics.kind = "spline" /\ dynamics.id > 1
    /\ vel_rating[0] # vel_rating[1]
    /\ dynamics.v_lim[0] = RInt(8) /\ dynamics.v_lim[1] = RInt(12)

\* C13: every division get_state and get_reward perform has a nonzero
\* divisor.  Of the latest calls, the divisors are the clamped distance to
\* the destination, the velocity limit and the raw lidar reading (when an
\* observation with history was built), and the original distance (when a
\* reward was computed).
C13_DivisorsNonzero ==
    /\ obsRet.kind = "history" =>
          /\ world_lidar # 0
          /\ \A i \in Agents :
                /\ dynamics.v_lim[i] # RZero
                /\ (IF Abs(destination[i] - position[i]) < 1
                    THEN 1 ELSE Abs(destination[i] - position[i])) # 0
    /\ Rewarded => \A i \in Agents : original_distances[i] # 0

\* C14: the rows of each discrete action table are pairwise distinct, so
\* the row an index resolves to is nearest to that index and to no other;
\* and resolving leaves the table as configure_action_space built it.
C14_TableRoundTrip ==
    fn.f \in {"discrete", "spline"} =>
        /\ action_list = ConfigureActionSpace(variant)
        /\ \A j, k \in DOMAIN action_list :
              j # k => action_list[j] # action_list[k]
        /\ fn.op \in {"discrete", "spline"} =>
              \A i \in Agents :
                 Nearest(action_list, action_list[fn.idx[i]]) = fn.idx[i]

\* C14 witness: the last row of the bicycle table was resolved for an agent
\* rated 1/2, giving the control [0.1, 1.5].
C14_Witness ==
    /\ fn.op = "discrete"
    /\ fn.idx[0] = Len(action_list) /\ Len(action_list) = 45
    /\ accln_rating[0] = Rat(1, 2)
    /\ fn.out[0] = <<Rat(1, 10), Rat(3, 2)>>

\* The penalty p is 1 + nd * (horizon - n - 1) / horizon, in integers.
PenaltyIs(p, nd, n) ==
    p[1] * (nd[2] * Horizon) =
        p[2] * (nd[2] * Horizon + nd[1] * (Horizon - n - 1))

\* C15 as stated: a new collision's penalty is 1 + nd * (horizon - nsteps
\* - 1) / horizon, at least 1, and of two new collisions at the same
\* normalized distance the one at the smaller nsteps costs strictly more.
C15_EarlierStrictlyMore ==
    fn.op = "penalty" =>
        /\ PenaltyIs(fn.p1, fn.nd, fn.n1) /\ PenaltyIs(fn.p2, fn.nd, fn.n2)
        /\ RLeq(ROne, fn.p1) /\ RLeq(ROne, fn.p2)
        /\ (fn.n1 < fn.n2 => ~RLeq(fn.p1, fn.p2))

\* C15: a new collision's penalty is 1 + nd * (horizon - nsteps - 1) /
\* horizon, at least 1; of two new collisions at the same normalized
\* distance the one at the smaller nsteps never costs less, costs strictly
\* more when the distance is positive, and both cost exactly 1 when it is 0.
C15_EarlierNeverLess ==
    fn.op = "penalty" =>
        /\ PenaltyIs(fn.p1, fn.nd, fn.n1) /\ PenaltyIs(fn.p2, fn.nd, fn.n2)
        /\ RLeq(ROne, fn.p1) /\ RLeq(ROne, fn.p2)
        /\ (fn.n1 < fn.n2 =>
              /\ RLeq(fn.p2, fn.p1)
              /\ (fn.nd # RZero => ~RLeq(fn.p1, fn.p2))
              /\ (fn.nd = RZero => fn.p1 = ROne /\ fn.p2 = ROne))

\* C15 witness: the same positive distance at nsteps 0 and 1, the earlier
\* collision costing more.
C15_Witness ==
    /\ fn.op = "penalty"
    /\ fn.nd = Rat(1, 2) /\ fn.n1 = 0 /\ fn.n2 = 1
    /\ ~RLeq(fn.p1, fn.p2) /\ RLeq(ROne, fn.p2)

\* C16: the continuous resolver is a pure function.  After a call the
\* tensor the caller holds has the value it was passed with, the control
\* returned is input acceleration x max_accln x rating with the steering
\* as given, and resolving the same tensor again returns the same control
\* as the first time.
C16_ContinuousResolverPure ==
    fn.op = "continuous" =>
        /\ held.val = fn.arg
        /\ fn.out = fn.first
        /\ \A i \in Agents :
              /\ fn.out[i][1] = fn.arg[i][1]
              /\ fn.out[i][2] =
                    Rat(fn.arg[i][2][1] * max_accln * accln_rating[i][1],
                        fn.arg[i][2][2] * accln_rating[i][2])

\* C17: a permutation-invariant critic returns the same value estimates
\* for an input and for the same input with its agents reordered.
C17_PermutationInvariant ==
    fn.op = "critic" => fn.val = fn.valPerm

\* C17 witness: the lidar critic evaluated on three agents whose
\* observations differ, in an order that moves the first agent.
C17_Witness ==
    /\ fn.op = "critic" /\ fn.class = "lidar"
    /\ Len(fn.obs) = 3 /\ fn.perm[1] # 1
    /\ Reordered(fn.obs, fn.perm) # fn.obs
    /\ Reordered(fn.lid, fn.perm) # fn.lid
    /\ fn.val = fn.valPerm

\* C18: for every action of the declared action space the resolved
\* acceleration is at most max_accln x rating in magnitude, in all three
\* classes (for the continuous class, on the first resolve of a tensor).
C18_AccelWithinRatedLimit ==
    (/\ fn.op \in {"continuous", "discrete", "spline"}
     /\ (fn.op = "continuous" => held.uses = 1)) =>
        \A i \in Agents :
            RLeq(RAbs(fn.accel[i]), RMul(RInt(max_accln), accln_rating[i]))

\* The raw values the latest history-producing get_state read.
LastRaw1 == rawLog1[Len(rawLog1)]
LastRaw2 == rawLog2[Len(rawLog2)]

\* C19 as stated, spline variant: the get_state of reset() returns the
\* rating alone and leaves both deques as reset() made them; the get_state
\* of every later step returns the two histories and pushes exactly one
\* entry to each deque (a full deque dropping its oldest), a stage-0 step
\* leaving nsteps alone.
C19_OnePushPerLaterCall ==
    [][(variant = "spline" /\ err' = "none"
           /\ lastCall'.op \in {"reset", "step"}) =>
        IF lastCall'.op = "reset"
        THEN obsRet'.kind = "rating" /\ queue1' = <<>> /\ queue2' = <<>>
        ELSE /\ obsRet'.kind = "history"
             /\ Len(rawLog1') = Len(rawLog1) + 1
             /\ queue1' = Append(IF Len(queue1) >= history_len
                                 THEN Tail(queue1) ELSE queue1, LastRaw1')
             /\ queue2' = Append(IF Len(queue2) >= history_len
                                 THEN Tail(queue2) ELSE queue2, LastRaw2')
             /\ (lastCall'.stage = 0 => nsteps' = nsteps)]_vars

\* C19 amended, spline variant: the get_state of reset() returns the rating
\* alone and leaves both deques empty; the get_state of every later step
\* returns the two histories.  With history_len > 1 the first of them fills
\* both deques with history_len copies of what it read and every later one
\* appends one entry to each, dropping the oldest; with history_len = 1 the
\* deques stay empty.  A stage-0 step leaves nsteps alone, a stage-1 step
\* advances it by one.
C19_HistoryAfterFirstCall ==
    [][(variant = "spline" /\ err' = "none"
           /\ lastCall'.op \in {"reset", "step"}) =>
        IF lastCall'.op = "reset"
        THEN obsRet'.kind = "rating" /\ queue1' = <<>> /\ queue2' = <<>>
        ELSE /\ obsRet'.kind = "history"
             /\ Len(rawLog1') = Len(rawLog1) + 1
             /\ Len(rawLog2') = Len(rawLog2) + 1
             /\ IF history_len = 1
                THEN queue1' = <<>> /\ queue2' = <<>>
                ELSE IF queue1 = <<>>
                     THEN /\ queue1' = [k \in 1..history_len |-> LastRaw1']
                          /\ queue2' = [k \in 1..history_len |-> LastRaw2']
                     ELSE /\ Len(queue1) = history_len
                          /\ queue1' = Append(Tail(queue1), LastRaw1')
                          /\ queue2' = Append(Tail(queue2), LastRaw2')
             /\ nsteps' = nsteps + (IF lastCall'.stage = 0 THEN 0 ELSE 1)]_vars

\* C19 witness: a second stage-0 step in a row right after reset, with two
\* observations read, the deques full and nsteps still 0.
C19_Witness ==
    /\ variant = "spline" /\ history_len > 1
    /\ lastCall = StepCall(0) /\ err = "none"
    /\ nstage0 = 2 /\ nsteps = 0
    /\ Len(rawLog1) = 2 /\ Len(queue1) = history_len
    /\ obsRet.kind = "history"

\* C20: in the latest get_reward the distance term is not positive, the
\* speed and penalty terms subtracted are not negative, the bonus is 0 or
\* 1, and so the reward of an agent is at most 0, or at most 1 when the
\* agent reached its goal for the first time on this call.
C20_RewardUpperBound ==
    Rewarded =>
        \A i \in Agents :
            /\ RLeq(rew[i].dist, RZero)
            /\ RLeq(RZero, rew[i].speed)
            /\ RLeq(RZero, rew[i].penalty)
            /\ rew[i].bonus \in {RZero, ROne}
            /\ RLeq(rew[i].total,
                    IF signedDist[i] <= 0 /\ reachCount[i] = 1
                    THEN ROne ELSE RZero)

\* C20 witness: one agent is paid the bonus without colliding, its reward
\* the bonus less the speed term, while the other collides and gets a
\* negative reward.
C20_Witness ==
    /\ Rewarded
    /\ \E i, j \in Agents :
          /\ rew[i].bonus = ROne /\ rew[i].penalty = RZero
          /\ rew[i].total = RSub(ROne, rew[i].speed)
          /\ RLeq(ROne, rew[j].penalty) /\ ~RLeq(RZero, rew[j].total)
====
